---- MODULE Spec2Model ----
(***************************************************************************)
(* Receipt bill splitter: the receipt line parser (parse_items), the       *)
(* balance calculator (calculate_balances) and the per-item split          *)
(* workflow, in the two variants of the repository: main.py (Streamlit,    *)
(* dynamic roster) and android.py (Kivy, fixed roster L/G/A).              *)
(*                                                                         *)
(* A text line is a sequence of one-character strings.  Money is kept in   *)
(* whole cents.  None is the empty sequence, a present optional value is a *)
(* one-element sequence.                                                   *)
(***************************************************************************)
EXTENDS Integers, Sequences, FiniteSets, TLC

VARIABLES
    variant,        \* "main" (main.py) or "android" (android.py)
    \* parse_items
    lines,          \* text.split('\n')
    li,             \* index of the line the for loop is at
    items,          \* items
    last_item,      \* last_item, as an index into items (0 = None)
    total_price,    \* total_price
    ppc,            \* "idle", "scan", "done" (returned) or "raised"
    \* calculate_balances
    c_items,        \* the argument items (each item's price, in cents)
    c_splits,       \* the argument splits
    c_payer,        \* the argument payer
    cj,             \* index of the (item, split) pair the for loop is at
    costs,          \* costs, a defaultdict: only the keys written are present
    balances,       \* the returned mapping (None until the function returns)
    cpc,            \* "idle", "loop", "done" (returned) or "raised"
    \* the split workflow (main.py: st.session_state; android.py:
    \* ReceiptSplitterLayout)
    file,           \* main.py: the uploaded receipt, as the items parse_items
                    \* extracts from it (None: no file in the uploader)
    receipt_items,  \* receipt_items (android.py: items)
    cur_index,      \* cur_index
    splits,         \* splits (android.py: split_choices)
    started,        \* main.py: started
    buttons,        \* android.py: the split buttons are in buttons_box
    payer,          \* payer
    participants,   \* main.py: participants
    split_options   \* main.py: split_options

pvars == <<lines, li, items, last_item, total_price, ppc>>
cvars == <<c_items, c_splits, c_payer, cj, costs, balances, cpc>>
fvars == <<file, receipt_items, cur_index, splits, started, buttons, payer,
           participants, split_options>>
vars == <<variant, pvars, cvars, fvars>>

None == <<>>
Some(x) == <<x>>

----------------------------------------------------------------------------
(* Characters and the regular-expression primitives of Python's re.        *)

Digits == <<"0", "1", "2", "3", "4", "5", "6", "7", "8", "9">>
UpperCase == <<"A","B","C","D","E","F","G","H","I","J","K","L","M",
               "N","O","P","Q","R","S","T","U","V","W","X","Y","Z">>
LowerCase == <<"a","b","c","d","e","f","g","h","i","j","k","l","m",
               "n","o","p","q","r","s","t","u","v","w","x","y","z">>

IsSpace(c) == c \in {" ", "\t"}
IsDigit(c) == \E d \in 1..10 : Digits[d] = c
DigitVal(c) == (CHOOSE d \in 1..10 : Digits[d] = c) - 1
Lower(c) == IF \E k \in 1..26 : UpperCase[k] = c
            THEN LowerCase[CHOOSE k \in 1..26 : UpperCase[k] = c]
            ELSE c

\* The character at position p, "" past either end.
At(s, p) == IF p \in 1..Len(s) THEN s[p] ELSE ""
Slice(s, p, q) == SubSeq(s, p, q - 1)
EndOf(s) == Len(s) + 1

\* \s* from p, greedy: the position after the run of whitespace.
RECURSIVE SkipSpaces(_, _)
SkipSpaces(s, p) == IF IsSpace(At(s, p)) THEN SkipSpaces(s, p + 1) ELSE p

\* \d* from p, greedy.
RECURSIVE SkipDigits(_, _)
SkipDigits(s, p) == IF IsDigit(At(s, p)) THEN SkipDigits(s, p + 1) ELSE p

\* str.strip()
RECURSIVE RStrip(_)
RStrip(s) == IF s # <<>> /\ IsSpace(s[Len(s)]) THEN RStrip(SubSeq(s, 1, Len(s) - 1)) ELSE s
Strip(s) == LET a == SkipSpaces(s, 1) IN RStrip(SubSeq(s, a, Len(s)))

\* The literal w at position p; ci = re.IGNORECASE.
LitAt(s, p, w, ci) ==
    /\ p + Len(w) - 1 <= Len(s)
    /\ \A k \in 1..Len(w) :
          IF ci THEN Lower(s[p + k - 1]) = Lower(w[k]) ELSE s[p + k - 1] = w[k]

\* 'w in s'
Contains(s, w) == \E p \in 1..Len(s) : LitAt(s, p, w, FALSE)

Min(S) == CHOOSE x \in S : \A y \in S : x <= y
Max(S) == CHOOSE x \in S : \A y \in S : x >= y

\* A match: ok, and the captured groups g (each a sequence of characters).
NoMatch == [ok |-> FALSE, g |-> <<>>]
Match(groups) == [ok |-> TRUE, g |-> groups]

\* \d+,\d{2} at p: the position after it, 0 when it does not match.  \d+ is
\* followed by a comma, so it takes the whole run of digits.
Dec2(s, p) ==
    LET d == SkipDigits(s, p) IN
    IF d > p /\ At(s, d) = "," /\ IsDigit(At(s, d + 1)) /\ IsDigit(At(s, d + 2))
    THEN d + 3 ELSE 0

\* -?\d+,\d{2} at p.
SignedDec2(s, p) == IF At(s, p) = "-" THEN Dec2(s, p + 1) ELSE Dec2(s, p)

\* float(x.replace(',', '.')) of a text matched by -?\d+,\d{2}, in cents.
RECURSIVE DigitsVal(_)
DigitsVal(s) == IF s = <<>> THEN 0
                ELSE 10 * DigitsVal(SubSeq(s, 1, Len(s) - 1)) + DigitVal(s[Len(s)])
ToCents(x) ==
    LET neg == At(x, 1) = "-"
        u == IF neg THEN Tail(x) ELSE x
        n == Len(u)
        v == 100 * DigitsVal(SubSeq(u, 1, n - 3)) + DigitsVal(SubSeq(u, n - 1, n))
    IN IF neg THEN 0 - v ELSE v

----------------------------------------------------------------------------
(* Literal texts.                                                          *)

W_Totaal == <<"T","o","t","a","a","l">>
W_kg == <<"k","g">>
W_EUR == <<"E","U","R">>
W_kg_x == <<" ","k","g"," ","x"," ">>
W_In_prijs_verlaagd ==
    <<"I","n"," ","p","r","i","j","s"," ","v","e","r","l","a","a","g","d">>
W_Lidl_Plus_korting ==
    <<"L","i","d","l"," ","P","l","u","s"," ","k","o","r","t","i","n","g">>
W_KORTING == <<"K","O","R","T","I","N","G">>

----------------------------------------------------------------------------
(* main.py: the compiled patterns of parse_items, applied to raw =          *)
(* line.strip().  Each returns Match(<<group 1, ...>>) or NoMatch, with the *)
(* groups Python's backtracking matcher captures.                           *)

\* \d+\s*x\s*\d+,\d{2} at p: the position after it, 0 when it does not match.
QtyEnd(s, p) ==
    LET d == SkipDigits(s, p)
        a == SkipSpaces(s, d)
        b == SkipSpaces(s, a + 1)
    IN IF d > p /\ At(s, a) = "x" THEN Dec2(s, b) ELSE 0

\* \s+[BC]?\s*$ at r (the end of the price).
ItemTail(s, r) ==
    LET t == SkipSpaces(s, r) IN
    /\ t > r
    /\ \/ t = EndOf(s)
       \/ At(s, t) \in {"B", "C"} /\ SkipSpaces(s, t + 1) = EndOf(s)

\* \s+(?:(\d+\s*x\s*\d+,\d{2})\s+)?(-?\d+,\d{2})\s+[BC]?\s*$ at p, the end of
\* group 1: Match(<<group 2 (None when it takes no part), group 3>>).  The
\* optional group is greedy: the matcher tries it first.
ItemRest(s, p) ==
    LET q == SkipSpaces(s, p)
        g == QtyEnd(s, q)
        h == SkipSpaces(s, g)
        rq == SignedDec2(s, h)
        r == SignedDec2(s, q)
    IN IF q = p THEN NoMatch
       ELSE IF g # 0 /\ h > g /\ rq # 0 /\ ItemTail(s, rq)
            THEN Match(<<Some(Slice(s, q, g)), Slice(s, h, rq)>>)
       ELSE IF r # 0 /\ ItemTail(s, r)
            THEN Match(<<None, Slice(s, q, r)>>)
       ELSE NoMatch

\* item_pattern.match(raw).  (.+?) is lazy: group 1 is the shortest non-empty
\* prefix after which the rest of the pattern matches.
item_pattern(raw) ==
    LET a == SkipSpaces(raw, 1)
        ends == {e \in a..Len(raw) : ItemRest(raw, e + 1).ok}
    IN IF ends = {} THEN NoMatch
       ELSE LET e == Min(ends)
                rest == ItemRest(raw, e + 1)
            IN Match(<<Slice(raw, a, e + 1), rest.g[1], rest.g[2]>>)

\* kg_pattern.match(raw), re.IGNORECASE.
kg_pattern(raw) ==
    LET a == SkipSpaces(raw, 1)
        d == SkipDigits(raw, a)
        f == SkipDigits(raw, d + 1)
        k == SkipSpaces(raw, f)
        x == SkipSpaces(raw, k + 2)
        b == SkipSpaces(raw, x + 1)
        c == Dec2(raw, b)
        e == SkipSpaces(raw, c)
    IN IF /\ d > a /\ At(raw, d) = "," /\ f > d + 1
          /\ LitAt(raw, k, W_kg, TRUE)
          /\ Lower(At(raw, x)) = "x"
          /\ c # 0
          /\ LitAt(raw, e, W_EUR, TRUE)
          /\ SkipSpaces(raw, e + 3) = EndOf(raw)
       THEN Match(<<Slice(raw, a, c)>>)
       ELSE NoMatch

\* ^\s*(<phrase>)\s+(-?\d+,\d{2})\s*$, re.IGNORECASE, for a literal phrase w.
PhrasePattern(raw, w) ==
    LET a == SkipSpaces(raw, 1)
        p == a + Len(w)
        q == SkipSpaces(raw, p)
        r == SignedDec2(raw, q)
    IN IF LitAt(raw, a, w, TRUE) /\ q > p /\ r # 0 /\ SkipSpaces(raw, r) = EndOf(raw)
       THEN Match(<<Slice(raw, a, p), Slice(raw, q, r)>>)
       ELSE NoMatch

price_adjust_pattern(raw) == PhrasePattern(raw, W_In_prijs_verlaagd)
lidl_plus_pattern(raw) == PhrasePattern(raw, W_Lidl_Plus_korting)

\* (?:\s*\d+%)*? from p, lazy: the end of group 1, the first position (fewest
\* repetitions) after which \s+(-?\d+,\d{2})\s*$ matches; 0 when none does.
RECURSIVE KortingEnd(_, _)
KortingEnd(s, p) ==
    LET q == SkipSpaces(s, p)
        r == SignedDec2(s, q)
        d == SkipDigits(s, q)
    IN IF q > p /\ r # 0 /\ SkipSpaces(s, r) = EndOf(s) THEN p
       ELSE IF d > q /\ At(s, d) = "%" THEN KortingEnd(s, d + 1)
       ELSE 0

generic_korting_pattern(raw) ==
    LET a == SkipSpaces(raw, 1)
        p == IF LitAt(raw, a, W_KORTING, TRUE) THEN KortingEnd(raw, a + Len(W_KORTING)) ELSE 0
        q == SkipSpaces(raw, p)
    IN IF p # 0 THEN Match(<<Slice(raw, a, p), Slice(raw, q, SignedDec2(raw, q))>>)
       ELSE NoMatch

\* <total pattern>.search(s): Totaal\s+(\d+,\d{2}), leftmost match.
TotalSearch(s, ci) ==
    LET starts == {p \in 1..Len(s) :
                     LET q == SkipSpaces(s, p + Len(W_Totaal)) IN
                     /\ LitAt(s, p, W_Totaal, ci)
                     /\ q > p + Len(W_Totaal)
                     /\ Dec2(s, q) # 0}
    IN IF starts = {} THEN NoMatch
       ELSE LET q == SkipSpaces(s, Min(starts) + Len(W_Totaal))
            IN Match(<<Slice(s, q, Dec2(s, q))>>)

total_line_pattern(raw) == TotalSearch(raw, TRUE)

\* for pat in (price_adjust_pattern, lidl_plus_pattern, generic_korting_pattern):
\* the first that matches.
DiscountMatch(raw) ==
    IF price_adjust_pattern(raw).ok THEN price_adjust_pattern(raw)
    ELSE IF lidl_plus_pattern(raw).ok THEN lidl_plus_pattern(raw)
    ELSE generic_korting_pattern(raw)


----------------------------------------------------------------------------
(* android.py: the patterns of parse_items, applied with re.match /         *)
(* re.search to the line as it is (not stripped, not anchored at the end).  *)

\* (\-?\d+,\d{2})\s+[BC]? at h: the position after the price, 0 when it does
\* not match.  [BC]? matches the empty text, so only \s+ constrains what
\* follows the price.
PriceA(s, h) ==
    LET r == SignedDec2(s, h) IN IF r # 0 /\ IsSpace(At(s, r)) THEN r ELSE 0

\* The ends of (?:\d+\s*x\s*\d+,\d+) at q; the last \d+ may stop after any of
\* its digits.
QtyEndsA(s, q) ==
    LET d == SkipDigits(s, q)
        a == SkipSpaces(s, d)
        b == SkipSpaces(s, a + 1)
        c == SkipDigits(s, b)
        f == SkipDigits(s, c + 1)
    IN IF d > q /\ At(s, a) = "x" /\ c > b /\ At(s, c) = "," THEN (c + 2)..f ELSE {}

\* \s+((?:\d+\s*x\s*\d+,\d+)?)(?:\s+)?(\-?\d+,\d{2})\s+[BC]? at p, the end of
\* group 1: Match(<<group 2, group 3>>).  The matcher tries the quantity at
\* its longest first, then shorter, then the empty group 2.
PatternRestA(s, p) ==
    LET q == SkipSpaces(s, p)
        good == {g \in QtyEndsA(s, q) : PriceA(s, SkipSpaces(s, g)) # 0}
    IN IF q = p THEN NoMatch
       ELSE IF good # {}
            THEN LET g == Max(good)
                     h == SkipSpaces(s, g)
                 IN Match(<<Slice(s, q, g), Slice(s, h, PriceA(s, h))>>)
       ELSE IF PriceA(s, q) # 0
            THEN Match(<<<<>>, Slice(s, q, PriceA(s, q))>>)
       ELSE NoMatch

\* re.match(pattern, line)
pattern(line) ==
    LET ends == {e \in 1..Len(line) : PatternRestA(line, e + 1).ok}
    IN IF ends = {} THEN NoMatch
       ELSE LET e == Min(ends)
                rest == PatternRestA(line, e + 1)
            IN Match(<<Slice(line, 1, e + 1), rest.g[1], rest.g[2]>>)

\* re.match(price_adjust_pattern, line): (In prijs verlaagd)\s+(\-?\d+,\d{2})
price_adjust_patternA(line) ==
    LET p == 1 + Len(W_In_prijs_verlaagd)
        q == SkipSpaces(line, p)
        r == SignedDec2(line, q)
    IN IF LitAt(line, 1, W_In_prijs_verlaagd, FALSE) /\ q > p /\ r # 0
       THEN Match(<<Slice(line, 1, p), Slice(line, q, r)>>)
       ELSE NoMatch

\* re.match(r'(\d+,\d+ kg x \d+,\d+)\s+EUR', line)
kg_matchA(line) ==
    LET d == SkipDigits(line, 1)
        f == SkipDigits(line, d + 1)
        b == f + Len(W_kg_x)
        c == SkipDigits(line, b)
        e == SkipDigits(line, c + 1)
        j == SkipSpaces(line, e)
    IN IF /\ d > 1 /\ At(line, d) = "," /\ f > d + 1
          /\ LitAt(line, f, W_kg_x, FALSE)
          /\ c > b /\ At(line, c) = "," /\ e > c + 1
          /\ j > e /\ LitAt(line, j, W_EUR, FALSE)
       THEN Match(<<Slice(line, 1, e)>>)
       ELSE NoMatch

\* re.search(r'Totaal\s+(\d+,\d{2})', line)
total_matchA(line) == TotalSearch(line, FALSE)

\* x.replace(',', '.')
ReplaceComma(x) == [k \in 1..Len(x) |-> IF x[k] = "," THEN "." ELSE x[k]]


----------------------------------------------------------------------------
(* main.py: participants and split options.  A name is a sequence of        *)
(* characters.                                                              *)

N_Lili == <<"L","i","l","i">>
N_Gergo == <<"G","e","r","g","o">>
N_Adi == <<"A","d","i">>
N_Kate == <<"K","a","t","e">>
N_George == <<"G","e","o","r","g","e">>
N_John == <<"J","o","h","n">>
N_Zoe == <<"Z","o","e">>

IsAlpha(c) == \E k \in 1..26 : UpperCase[k] = c \/ LowerCase[k] = c
Upper(c) == IF \E k \in 1..26 : LowerCase[k] = c
            THEN UpperCase[CHOOSE k \in 1..26 : LowerCase[k] = c]
            ELSE c
LowerText(x) == [k \in 1..Len(x) |-> Lower(x[k])]

\* The code point of a character of a label (digits, letters, '?').
Ord(c) ==
    IF IsDigit(c) THEN 48 + DigitVal(c)
    ELSE IF \E k \in 1..26 : UpperCase[k] = c
         THEN 64 + (CHOOSE k \in 1..26 : UpperCase[k] = c)
    ELSE IF \E k \in 1..26 : LowerCase[k] = c
         THEN 96 + (CHOOSE k \in 1..26 : LowerCase[k] = c)
    ELSE IF c = "?" THEN 63
    ELSE 32

\* initials(name): the first letter or digit of the stripped name, uppercased.
RECURSIVE FirstAlnum(_)
FirstAlnum(x) ==
    IF x = <<>> THEN <<>>
    ELSE IF IsAlpha(Head(x)) \/ IsDigit(Head(x)) THEN <<Upper(Head(x))>>
    ELSE FirstAlnum(Tail(x))
initials(name) ==
    IF FirstAlnum(Strip(name)) # <<>> THEN FirstAlnum(Strip(name))
    ELSE IF name # <<>> THEN <<Upper(name[1])>>
    ELSE <<"?">>

\* [p.strip() for p in participants if p.strip()]
RECURSIVE Cleaned(_)
Cleaned(ps) ==
    IF ps = <<>> THEN <<>>
    ELSE IF Strip(Head(ps)) # <<>> THEN <<Strip(Head(ps))>> \o Cleaned(Tail(ps))
    ELSE Cleaned(Tail(ps))

\* De-duplication by lowercased name, keeping the first occurrence.
RECURSIVE Dedup(_, _)
Dedup(ps, seen) ==
    IF ps = <<>> THEN <<>>
    ELSE IF LowerText(Head(ps)) \in seen THEN Dedup(Tail(ps), seen)
    ELSE <<Head(ps)>> \o Dedup(Tail(ps), seen \cup {LowerText(Head(ps))})

\* itertools.combinations(ordered, r), in its order.
RECURSIVE Combinations(_, _)
Combinations(xs, r) ==
    IF r = 0 THEN <<<<>>>>
    ELSE IF Len(xs) < r THEN <<>>
    ELSE LET with == Combinations(Tail(xs), r - 1)
         IN [k \in 1..Len(with) |-> <<Head(xs)>> \o with[k]] \o Combinations(Tail(xs), r)

RECURSIVE Concat(_)
Concat(xs) == IF xs = <<>> THEN <<>> ELSE Head(xs) \o Concat(Tail(xs))

Option(combo) ==
    [label |-> Concat([k \in 1..Len(combo) |-> initials(combo[k])]), members |-> combo]

\* for r in range(1, len(ordered) + 1): for combo in combinations(ordered, r)
RECURSIVE AllCombos(_, _)
AllCombos(ordered, r) ==
    IF r > Len(ordered) THEN <<>>
    ELSE LET cs == Combinations(ordered, r)
         IN [k \in 1..Len(cs) |-> Option(cs[k])] \o AllCombos(ordered, r + 1)

\* a < b for labels (str comparison).
RECURSIVE TextLess(_, _)
TextLess(a, b) ==
    IF b = <<>> THEN FALSE
    ELSE IF a = <<>> THEN TRUE
    ELSE IF Ord(Head(a)) # Ord(Head(b)) THEN Ord(Head(a)) < Ord(Head(b))
    ELSE TextLess(Tail(a), Tail(b))

\* key(a) < key(b) for key = (len(members), label).
KeyLess(a, b) ==
    \/ Len(a.members) < Len(b.members)
    \/ Len(a.members) = Len(b.members) /\ TextLess(a.label, b.label)

\* options.sort(key=...): a stable sort.
RECURSIVE InsertSorted(_, _)
InsertSorted(sorted, o) ==
    IF sorted = <<>> THEN <<o>>
    ELSE IF KeyLess(o, Head(sorted)) THEN <<o>> \o sorted
    ELSE <<Head(sorted)>> \o InsertSorted(Tail(sorted), o)
RECURSIVE SortOptions(_, _)
SortOptions(done, todo) ==
    IF todo = <<>> THEN done
    ELSE SortOptions(InsertSorted(done, Head(todo)), Tail(todo))

build_split_options(names) ==
    SortOptions(<<>>, AllCombos(Dedup(Cleaned(names), {}), 1))

\* android.py: split_options, and person_map of calculate_balances (a code
\* and a person are texts, as names are).
split_optionsA == << <<"L">>, <<"G">>, <<"A">>, <<"L","G">>, <<"L","G","A">> >>
person_map ==
    (<<"L">> :> << <<"L">> >>) @@ (<<"G">> :> << <<"G">> >>) @@ (<<"A">> :> << <<"A">> >>)
    @@ (<<"L","G">> :> << <<"L">>, <<"G">> >>)
    @@ (<<"L","G","A">> :> << <<"L">>, <<"G">>, <<"A">> >>)

----------------------------------------------------------------------------
(* The receipt texts parse_items is run on: every text of at most MaxLines  *)
(* lines drawn from Corpus.                                                 *)

MaxLines == 3

\* 'Brood 1,99 B'
L_item ==
    <<"B","r","o","o","d"," ","1",",","9","9"," ","B">>
\* 'Brood 1,99'
L_item_bare ==
    <<"B","r","o","o","d"," ","1",",","9","9">>
\* 'Tomatenblokjes 3 x 0,64 1,92 B'
L_qty ==
    <<"T","o","m","a","t","e","n","b","l","o","k","j","e","s"," ","3"," ","x"," ","0",",","6","4"," ","1",",","9","2"," ","B">>
\* 'Tomatenblokjes 3 x 0,64 1,92'
L_qty_bare ==
    <<"T","o","m","a","t","e","n","b","l","o","k","j","e","s"," ","3"," ","x"," ","0",",","6","4"," ","1",",","9","2">>
\* '1,20 kg x 2,99 EUR'
L_kg ==
    <<"1",",","2","0"," ","k","g"," ","x"," ","2",",","9","9"," ","E","U","R">>
\* 'In prijs verlaagd -0,50'
L_discount ==
    <<"I","n"," ","p","r","i","j","s"," ","v","e","r","l","a","a","g","d"," ","-","0",",","5","0">>
\* 'Totaal 23,45'
L_total ==
    <<"T","o","t","a","a","l"," ","2","3",",","4","5">>
\* 'Totaal'
L_total_bare ==
    <<"T","o","t","a","a","l">>
\* ''
L_blank ==
    <<>>
\* 'Lidl'
L_noise ==
    <<"L","i","d","l">>

Corpus == {L_item, L_item_bare, L_qty, L_qty_bare, L_kg, L_discount,
           L_total, L_total_bare, L_blank, L_noise}

Texts == UNION {[1..n -> Corpus] : n \in 0..MaxLines}

Variants == {"main", "android"}

----------------------------------------------------------------------------
(* translate_item.  GoogleTranslator(...).translate(name) either returns a  *)
(* text (GoogleTranslate) or raises: tr is "ok" or "error".                 *)

TranslateOutcomes == {"ok", "error"}

GoogleTranslate(name) == <<"e", "n", ":">> \o name

\* main.py: no handler, the exception propagates to the caller.
translate_item(name, tr) ==
    IF tr = "ok" THEN [raised |-> FALSE, value |-> GoogleTranslate(name)]
    ELSE [raised |-> TRUE, value |-> name]

\* android.py: except Exception: return name.
translate_itemA(name, tr) ==
    IF tr = "ok" THEN [raised |-> FALSE, value |-> GoogleTranslate(name)]
    ELSE [raised |-> FALSE, value |-> name]

----------------------------------------------------------------------------
(* parse_items, one action per iteration of "for line in lines".            *)

Item(name, tr_name, amount, price) ==
    [name |-> name, tr_name |-> tr_name, amount |-> amount, price |-> price]

\* The state of the parts a specification does not run.
ParseIdle ==
    /\ lines = <<>> /\ li = 1 /\ items = <<>> /\ last_item = 0
    /\ total_price = None /\ ppc = "idle"
CalcIdle ==
    /\ c_items = <<>> /\ c_splits = <<>> /\ c_payer = <<>> /\ cj = 1
    /\ costs = <<>> /\ balances = None /\ cpc = "idle"
FlowIdle ==
    /\ file = None /\ receipt_items = <<>> /\ cur_index = 0 /\ splits = <<>>
    /\ started = FALSE /\ buttons = FALSE /\ payer = <<>>
    /\ participants = <<>> /\ split_options = <<>>

ParseInit ==
    /\ variant \in Variants
    /\ lines \in Texts
    /\ li = 1
    /\ items = <<>>
    /\ last_item = 0
    /\ total_price = None
    /\ ppc = "scan"
    /\ CalcIdle
    /\ FlowIdle

\* continue
NextLine == li' = li + 1 /\ UNCHANGED <<items, last_item, total_price, ppc>>

\* TotalBreak with "continue" in place of "break".
TotalContinue(m) ==
    /\ total_price' = IF m.ok THEN Some(ToCents(m.g[1])) ELSE total_price
    /\ li' = li + 1
    /\ UNCHANGED <<items, last_item, ppc>>

\* The 'Totaal' branch: capture the total when the pattern matches, then break
\* (the loop is left and the function returns).
TotalBreak(m) ==
    /\ total_price' = IF m.ok THEN Some(ToCents(m.g[1])) ELSE total_price
    /\ ppc' = "done"
    /\ UNCHANGED <<li, items, last_item>>

\* last_item['amount'] = <group 1>; continue
AttachAmount(text) ==
    /\ items' = [items EXCEPT ![last_item].amount = Some(text)]
    /\ li' = li + 1
    /\ UNCHANGED <<last_item, total_price, ppc>>

\* tr_name = translate_item(name); items.append(item) and, when setLast,
\* last_item = item.  A raising translate_item ends parse_items.
EmitItem(name, t, amount, price, setLast) ==
    IF t.raised
    THEN /\ ppc' = "raised"
         /\ UNCHANGED <<li, items, last_item, total_price>>
    ELSE /\ items' = Append(items, Item(name, t.value, amount, price))
         /\ last_item' = IF setLast THEN Len(items) + 1 ELSE last_item
         /\ li' = li + 1
         /\ UNCHANGED <<total_price, ppc>>

\* What the patterns of main.py give for one line.
MatchesMain(line) ==
    LET raw == Strip(line) IN
    [raw |-> raw,
     has_total |-> Contains(raw, W_Totaal),
     m_total |-> total_line_pattern(raw),
     m_kg |-> kg_pattern(raw),
     m_disc |-> DiscountMatch(raw),
     m_item |-> item_pattern(raw)]

\* What the patterns of android.py give for one line.
MatchesAndroid(line) ==
    [has_total |-> Contains(line, W_Totaal),
     m_total |-> total_matchA(line),
     kg_match |-> kg_matchA(line),
     match |-> pattern(line),
     adj_match |-> price_adjust_patternA(line)]

\* The matches of every line of the corpus, computed once.
TableMain == [l \in Corpus |-> MatchesMain(l)]
TableAndroid == [l \in Corpus |-> MatchesAndroid(l)]

\* main.py, the body of the loop for lines[li].
ParseLineMain(tr) ==
    /\ variant = "main" /\ ppc = "scan" /\ li <= Len(lines)
    /\ \E c \in {TableMain[lines[li]]} :
       IF c.raw = <<>> THEN NextLine
       ELSE IF c.has_total THEN TotalBreak(c.m_total)
       ELSE IF c.m_kg.ok /\ last_item # 0 THEN AttachAmount(c.m_kg.g[1])
       ELSE IF c.m_disc.ok
            THEN LET name == Strip(c.m_disc.g[1]) IN
                 EmitItem(name, translate_item(name, tr), None,
                          ToCents(c.m_disc.g[2]), TRUE)
       ELSE IF c.m_item.ok
            THEN LET name == Strip(c.m_item.g[1]) IN
                 EmitItem(name, translate_item(name, tr),
                          IF c.m_item.g[2] # None
                          THEN Some(Strip(c.m_item.g[2][1])) ELSE None,
                          ToCents(c.m_item.g[3]), TRUE)
       ELSE NextLine
    /\ UNCHANGED <<variant, lines, cvars, fvars>>

\* android.py, the body of the loop for lines[li].
ParseLineAndroid(tr) ==
    /\ variant = "android" /\ ppc = "scan" /\ li <= Len(lines)
    /\ \E c \in {TableAndroid[lines[li]]} :
       IF c.has_total THEN TotalBreak(c.m_total)
       ELSE IF c.kg_match.ok /\ last_item # 0 THEN AttachAmount(c.kg_match.g[1])
       ELSE IF c.match.ok
            THEN LET name == Strip(c.match.g[1])
                     amount == IF c.match.g[2] # <<>>
                               THEN Strip(ReplaceComma(c.match.g[2])) ELSE <<>>
                 IN EmitItem(name, translate_itemA(name, tr),
                             IF amount # <<>> THEN Some(amount) ELSE None,
                             ToCents(c.match.g[3]), TRUE)
       ELSE IF c.adj_match.ok
            THEN LET name == Strip(c.adj_match.g[1]) IN
                 EmitItem(name, translate_itemA(name, tr), None,
                          ToCents(c.adj_match.g[2]), FALSE)
       ELSE NextLine
    /\ UNCHANGED <<variant, lines, cvars, fvars>>

\* The loop is exhausted: return items, total_price.
ParseReturn ==
    /\ ppc = "scan" /\ li > Len(lines)
    /\ ppc' = "done"
    /\ UNCHANGED <<variant, lines, li, items, last_item, total_price, cvars, fvars>>

ParseNext ==
    \/ \E tr \in TranslateOutcomes : ParseLineMain(tr)
    \/ \E tr \in TranslateOutcomes : ParseLineAndroid(tr)
    \/ ParseReturn

Spec == ParseInit /\ [][ParseNext]_vars


----------------------------------------------------------------------------
(* calculate_balances, one action per iteration of                          *)
(* "for item, split in zip(items, splits)" and one for the rest.            *)

MaxItems == 2

\* Item prices, in cents: 0.02, 1.92 and 3.00.
Prices == {2, 192, 300}

\* The roster entered in main.py, and a name that is not on it.
RosterMain == <<N_Lili, N_Gergo, N_Adi, N_Kate>>
\* The roster of android.py (person_map['LGA']), and a code that is not on it.
RosterA == person_map[<<"L","G","A">>]
N_X == <<"X">>

Range(f) == {f[k] : k \in DOMAIN f}
SeqsUpTo(S, n) == UNION {[1..m -> S] : m \in 0..n}

\* A split with no members: not one build_split_options makes.
EmptySplit == [label |-> <<>>, members |-> <<>>]

\* The splits calculate_balances is called with: in main.py the options of
\* the roster and the empty split, in android.py the codes of split_options
\* and the empty code.
SplitInputs(v) ==
    IF v = "main" THEN Range(build_split_options(RosterMain)) \cup {EmptySplit}
    ELSE Range(split_optionsA) \cup {<<>>}

PayerInputs(v) == IF v = "main" THEN {N_Lili, N_Zoe} ELSE {<<"L">>, N_X}

KnownParticipants(v) == IF v = "main" THEN Range(RosterMain) ELSE Range(RosterA)

CalcInputs ==
    [v \in Variants |->
        [its : SeqsUpTo([price : Prices], MaxItems),
         sps : SeqsUpTo(SplitInputs(v), MaxItems),
         payer : PayerInputs(v)]]

CalcInit ==
    /\ variant \in Variants
    /\ \E in \in CalcInputs[variant] :
          /\ c_items = in.its
          /\ c_splits = in.sps
          /\ c_payer = in.payer
    /\ cj = 1
    /\ costs = <<>>
    /\ balances = None
    /\ cpc = "loop"
    /\ ParseIdle
    /\ FlowIdle

\* zip(items, splits) stops with the shorter of the two.
Pairs == IF Len(c_items) <= Len(c_splits) THEN Len(c_items) ELSE Len(c_splits)

\* float(<price text>) - price, as a sign: the binary64 nearest to 0.02 is
\* 0.02000000000000000041..., the one nearest to 1.92 is
\* 1.91999999999999992894..., and 3.00 is a binary64.
FloatErrorSign == (2 :> 1) @@ (192 :> 0 - 1) @@ (300 :> 0)

\* round2 with the quotient truncated (price // k) instead of rounded.
round2_truncated(price, k) == price \div k

\* round(price / k, 2), in cents, for 1 <= k <= 4.  round() rounds the
\* binary64 quotient correctly, and to even when it is exactly halfway.  A
\* quotient of whole cents is halfway between two cents only for k = 2 and
\* k = 4, where the division is exact, so that the quotient lies on the side
\* of the midpoint on which float(price) lies of price.
round2(price, k) ==
    LET fl == price \div k
        rem == price % k
    IN IF 2 * rem < k THEN fl
       ELSE IF 2 * rem > k THEN fl + 1
       ELSE IF FloatErrorSign[price] > 0 THEN fl + 1
       ELSE IF FloatErrorSign[price] < 0 THEN fl
       ELSE IF fl % 2 = 0 THEN fl ELSE fl + 1

\* costs.get(p, 0.0)
CostOf(c, p) == IF p \in DOMAIN c THEN c[p] ELSE 0

\* AddShares with "costs[p] = per_person" in place of "+=".
RECURSIVE AddShares_overwrite(_, _, _)
AddShares_overwrite(c, people, per_person) ==
    IF people = <<>> THEN c
    ELSE LET p == Head(people)
             c1 == [q \in DOMAIN c \cup {p} |-> IF q = p THEN per_person ELSE c[q]]
         IN AddShares_overwrite(c1, Tail(people), per_person)

\* for p in people: costs[p] += per_person
RECURSIVE AddShares(_, _, _)
AddShares(c, people, per_person) ==
    IF people = <<>> THEN c
    ELSE LET p == Head(people)
             c1 == [q \in DOMAIN c \cup {p} |->
                        IF q = p THEN CostOf(c, p) + per_person ELSE c[q]]
         IN AddShares(c1, Tail(people), per_person)

\* main.py: the body of the first loop.
CalcStepMain ==
    /\ variant = "main" /\ cpc = "loop" /\ cj <= Pairs
    /\ LET people == c_splits[cj].members IN
       costs' = IF people = <<>> THEN costs
                ELSE AddShares(costs, people, round2(c_items[cj].price, Len(people)))
    /\ cj' = cj + 1
    /\ UNCHANGED <<variant, c_items, c_splits, c_payer, balances, cpc, pvars, fvars>>

\* BalancesMain without the "if person != payer" test.
BalancesMain_keepPayer(c, paid_by) == [p \in DOMAIN c |-> c[p]]

\* main.py: the second loop.  round(amount, 2) of a sum of whole cents is
\* that sum.
BalancesMain(c, paid_by) == [p \in DOMAIN c \ {paid_by} |-> c[p]]

CalcReturnMain ==
    /\ variant = "main" /\ cpc = "loop" /\ cj > Pairs
    /\ balances' = Some(BalancesMain(costs, c_payer))
    /\ cpc' = "done"
    /\ UNCHANGED <<variant, c_items, c_splits, c_payer, cj, costs, pvars, fvars>>

\* android.py: the body of the first loop; person_map[split] raises KeyError
\* for a split that is no key of it.
CalcStepAndroid ==
    /\ variant = "android" /\ cpc = "loop" /\ cj <= Pairs
    /\ IF c_splits[cj] \notin DOMAIN person_map
       THEN cpc' = "raised" /\ UNCHANGED <<cj, costs>>
       ELSE LET people == person_map[c_splits[cj]] IN
            /\ costs' = AddShares(costs, people,
                                  round2(c_items[cj].price, Len(people)))
            /\ cj' = cj + 1
            /\ UNCHANGED cpc
    /\ UNCHANGED <<variant, c_items, c_splits, c_payer, balances, pvars, fvars>>

\* android.py: the second loop, over person_map['LGA'].
BalancesAndroid(c, paid_by) == [p \in Range(RosterA) \ {paid_by} |-> CostOf(c, p)]

CalcReturnAndroid ==
    /\ variant = "android" /\ cpc = "loop" /\ cj > Pairs
    /\ balances' = Some(BalancesAndroid(costs, c_payer))
    /\ cpc' = "done"
    /\ UNCHANGED <<variant, c_items, c_splits, c_payer, cj, costs, pvars, fvars>>

CalcNext ==
    \/ CalcStepMain
    \/ CalcReturnMain
    \/ CalcStepAndroid
    \/ CalcReturnAndroid

SpecBalances == CalcInit /\ [][CalcNext]_vars


----------------------------------------------------------------------------
(* Properties of parse_items (specification Spec).                          *)

\* The loop is at a line: lines[li] is the line the next iteration reads.
Scanning == ppc = "scan" /\ li <= Len(lines)

\* The index of the first line containing 'Totaal', 0 when there is none.
FirstTotal ==
    LET ts == {t \in 1..Len(lines) : Contains(lines[t], W_Totaal)}
    IN IF ts = {} THEN 0 ELSE Min(ts)

T_Brood == <<"B","r","o","o","d">>
T_Tomatenblokjes == <<"T","o","m","a","t","e","n","b","l","o","k","j","e","s">>
T_kg_amount == <<"1",",","2","0"," ","k","g"," ","x"," ","2",",","9","9">>
T_qty == <<"3"," ","x"," ","0",",","6","4">>
T_qty_dot == <<"3"," ","x"," ","0",".","6","4">>

LastOf(xs) == xs[Len(xs)]

\* C1: parse_items stops at the first line containing 'Totaal'.  The loop
\* never reads a line after it; the iteration that reads it emits no item,
\* changes no item and ends the function; and the total returned is 23.45
\* when that line is 'Totaal 23,45' and None when it is 'Totaal' alone or
\* when no line contains the marker.
C1_StopsAtTotal ==
    /\ [](FirstTotal # 0 => li <= FirstTotal)
    /\ [](ppc = "done" =>
            total_price = IF FirstTotal # 0 /\ lines[FirstTotal] = L_total
                          THEN Some(2345) ELSE None)
    /\ [][Scanning /\ li = FirstTotal => items' = items /\ ppc' = "done"]_vars

\* C1: a returned parse whose total line is followed by a line of the item,
\* weight or discount grammar.
C1_Witness ==
    /\ ppc = "done"
    /\ FirstTotal \in 1..(Len(lines) - 1)
    /\ lines[FirstTotal] = L_total
    /\ lines[FirstTotal + 1] \in {L_item, L_kg, L_discount}
    /\ items # <<>>
    /\ total_price = Some(2345)

\* C2: a weight-continuation line is never a new item: with an item already
\* emitted, the iteration overwrites that item's amount with the matched text
\* and adds no item; with none emitted, the item list stays empty.
C2_WeightLineNeverAnItem ==
    [][Scanning /\ lines[li] = L_kg =>
         IF items # <<>>
         THEN items' = [items EXCEPT ![Len(items)].amount = Some(T_kg_amount)]
         ELSE items' = <<>>]_vars

\* C3: parse_items never raises because translate fails, and every item it
\* emits carries the translation of its name or, when translate failed, the
\* name itself.
C3_TranslationFailureIsNotFatal ==
    /\ ppc # "raised"
    /\ \A k \in 1..Len(items) :
          items[k].tr_name \in {GoogleTranslate(items[k].name), items[k].name}

\* C9: a regular item line without category letter ('Brood 1,99',
\* 'Tomatenblokjes 3 x 0,64 1,92') yields one item with its name, its
\* quantity text (or None) and its price, as the line followed by ' B' does.
C9_CategoryLetterOptional ==
    [][Scanning /\ lines[li] \in {L_item_bare, L_qty_bare} /\ ppc' # "raised" =>
         /\ Len(items') = Len(items) + 1
         /\ SubSeq(items', 1, Len(items)) = items
         /\ IF lines[li] = L_item_bare
            THEN /\ LastOf(items').name = T_Brood
                 /\ LastOf(items').amount = None
                 /\ LastOf(items').price = 199
            ELSE /\ LastOf(items').name = T_Tomatenblokjes
                 /\ LastOf(items').amount \in {Some(T_qty), Some(T_qty_dot)}
                 /\ LastOf(items').price = 192]_vars

\* C10: a discount line emits an item with amount None and the signed price,
\* and that item is the last item: a weight-continuation line right after it
\* sets the amount of the discount item and of no other item.
C10_DiscountBecomesLastItem ==
    [][/\ Scanning /\ lines[li] = L_discount /\ ppc' # "raised" =>
            /\ Len(items') = Len(items) + 1
            /\ SubSeq(items', 1, Len(items)) = items
            /\ LastOf(items').name = W_In_prijs_verlaagd
            /\ LastOf(items').amount = None
            /\ LastOf(items').price = 0 - 50
       /\ Scanning /\ lines[li] = L_kg /\ li > 1 /\ lines[li - 1] = L_discount =>
            /\ items # <<>>
            /\ items' = [items EXCEPT ![Len(items)].amount = Some(T_kg_amount)]]_vars


----------------------------------------------------------------------------
(* Properties of calculate_balances (specification SpecBalances).           *)

Abs(x) == IF x < 0 THEN 0 - x ELSE x

\* The members of a split, as calculate_balances reads them; a code that is
\* no key of person_map has none.
MembersOf(v, split) ==
    IF v = "main" THEN split.members
    ELSE IF split \in DOMAIN person_map THEN person_map[split] ELSE <<>>

RECURSIVE SumOver(_, _)
SumOver(f, S) ==
    IF S = {} THEN 0
    ELSE LET x == CHOOSE y \in S : TRUE IN f[x] + SumOver(f, S \ {x})

Returned == cpc = "done"
Result == balances[1]

\* The payer is a member of every split that is paired with an item.
PayerInEverySplit ==
    \A j \in 1..Pairs : c_payer \in Range(MembersOf(variant, c_splits[j]))

\* C4: the mapping calculate_balances returns never has the payer as a key.
C4_PayerNeverAKey == Returned => c_payer \notin DOMAIN Result

\* C4: a returned mapping with entries, for two items whose splits all
\* contain the payer.
C4_Witness ==
    /\ Returned /\ Pairs = 2 /\ PayerInEverySplit
    /\ DOMAIN Result # {}

\* One item, split among k >= 1 participants that include the payer.
SingleItemWithPayer ==
    /\ Returned /\ Len(c_items) = 1 /\ Pairs = 1
    /\ c_payer \in Range(MembersOf(variant, c_splits[1]))
SingleK == Len(MembersOf(variant, c_splits[1]))
\* The sum of the balances plus the payer's share, less the price, in cents.
SingleDrift == SumOver(Result, DOMAIN Result) + costs[c_payer] - c_items[1].price

\* C5, as claimed: for a single item split among k participants that include
\* the payer, the balances plus the payer's share differ from the price by at
\* most 0.01.
C5_DriftAtMostOneCent == SingleItemWithPayer => Abs(SingleDrift) <= 1

\* C5, amended: the difference is at most half a cent per participant
\* (0.005 * k), hence at most 0.01 for k <= 3.
C5_DriftAtMostHalfCentEach ==
    SingleItemWithPayer =>
        /\ 2 * Abs(SingleDrift) <= SingleK
        /\ SingleK <= 3 => Abs(SingleDrift) <= 1

\* C5: a single item shared by four whose balances and payer's share are
\* 0.02 away from the price.
C5_Witness == SingleItemWithPayer /\ SingleK = 4 /\ Abs(SingleDrift) = 2

\* The cents nearest to price / k: one value, or two when price / k is
\* exactly halfway.
NearestCents(price, k) ==
    {sh \in (price \div k)..(price \div k + 1) : 2 * Abs(k * sh - price) <= k}

\* The pairs whose split has members, and those among them with person p.
PairsWithMembers == {j \in 1..Pairs : MembersOf(variant, c_splits[j]) # <<>>}
PairsOf(p) == {j \in PairsWithMembers : p \in Range(MembersOf(variant, c_splits[j]))}

Opt_LG == Option(<<N_Lili, N_Gergo>>)
Opt_LGA == Option(<<N_Lili, N_Gergo, N_Adi>>)

\* C6: main.py's calculate_balances returns the mapping whose keys are the
\* participants other than the payer that are members of a non-empty split
\* paired with an item, each with the sum of the per-person shares (the
\* item's price over the split size, rounded to the nearest cent) of the
\* pairs it is a member of.  Items 1.92 and 3.00 with splits {L,G} and
\* {L,G,A} and payer L give G 1.96 and A 1.00.
C6_BalancesAreSumsOfRoundedShares ==
    Returned /\ variant = "main" =>
        /\ DOMAIN Result = {p \in KnownParticipants("main") : PairsOf(p) # {}} \ {c_payer}
        /\ \E up \in [1..Pairs -> BOOLEAN] :
              LET share == [j \in PairsWithMembers |->
                               LET near == NearestCents(c_items[j].price,
                                                        Len(c_splits[j].members))
                               IN IF up[j] THEN Max(near) ELSE Min(near)]
              IN \A p \in DOMAIN Result : Result[p] = SumOver(share, PairsOf(p))
        /\ ( /\ c_items = <<[price |-> 192], [price |-> 300]>>
             /\ c_splits = <<Opt_LG, Opt_LGA>>
             /\ c_payer = N_Lili )
           => Result = (N_Gergo :> 196) @@ (N_Adi :> 100)

\* C6: the returned mapping of the end-to-end scenario.
C6_Witness ==
    /\ Returned /\ variant = "main"
    /\ c_items = <<[price |-> 192], [price |-> 300]>>
    /\ c_splits = <<Opt_LG, Opt_LGA>>
    /\ c_payer = N_Lili
    /\ DOMAIN Result = {N_Gergo, N_Adi}

\* A split with an empty member set, or a payer that is no known participant.
InvalidAssignment ==
    \/ \E j \in 1..Len(c_splits) : MembersOf(variant, c_splits[j]) = <<>>
    \/ c_payer \notin KnownParticipants(variant)

\* C7: calculate_balances rejects an invalid split assignment: with an empty
\* member set or an unknown payer the call returns no balance mapping.
C7_InvalidAssignmentRejected == InvalidAssignment => ~Returned


----------------------------------------------------------------------------
(* The split workflow.  main.py: every action is one run of the script,     *)
(* started by one widget event, with st.session_state as the state.         *)
(* android.py: every action is one callback of ReceiptSplitterLayout.       *)
(* What is only displayed (the preview, the OCR text, the total, the        *)
(* results) is not part of the state.                                       *)

MaxReceiptItems == 2
MaxExtraPresses == 1

\* Items as parse_items returns them.
ReceiptSamples ==
    {Item(T_Tomatenblokjes, GoogleTranslate(T_Tomatenblokjes), Some(T_qty), 192)}
ParseResults == SeqsUpTo(ReceiptSamples, MaxReceiptItems)

DefaultParticipants == <<N_Kate, N_George, N_John>>
\* What the user may type into "Participants (comma-separated)", split at
\* the commas.
NamesInputs == {DefaultParticipants, <<N_Lili, <<" ">>, N_Gergo>>}

\* The split options of every roster the workflow can hold, computed once.
OptionsTable ==
    [ps \in {DefaultParticipants, <<N_Lili, N_Gergo>>} |-> build_split_options(ps)]

\* main.py: the session state after the first run; android.py: the layout
\* show_splitter builds, with the parsed items.
FlowInit ==
    /\ variant \in Variants
    /\ IF variant = "main"
       THEN /\ receipt_items = <<>>
            /\ participants = DefaultParticipants
            /\ split_options = OptionsTable[DefaultParticipants]
            /\ payer = DefaultParticipants[1]
       ELSE /\ receipt_items \in ParseResults
            /\ participants = RosterA
            /\ split_options = split_optionsA
            /\ payer = <<>>
    /\ file = None
    /\ cur_index = 0
    /\ splits = <<>>
    /\ started = FALSE
    /\ buttons = FALSE
    /\ ParseIdle
    /\ CalcIdle

\* main.py: a receipt image is put into (or replaced in) the uploader.
Upload(its) ==
    /\ variant = "main"
    /\ file' = Some(its)
    /\ UNCHANGED <<variant, receipt_items, cur_index, splits, started, buttons,
                   payer, participants, split_options, pvars, cvars>>

\* main.py: the file is removed from the uploader.
RemoveFile ==
    /\ variant = "main" /\ file # None
    /\ file' = None
    /\ UNCHANGED <<variant, receipt_items, cur_index, splits, started, buttons,
                   payer, participants, split_options, pvars, cvars>>

\* main.py: the participants text is edited.
EditParticipants(names) ==
    /\ variant = "main"
    /\ LET new_participants == Cleaned(names) IN
       IF new_participants # <<>> /\ new_participants # participants
       THEN /\ participants' = new_participants
            /\ split_options' = OptionsTable[new_participants]
            /\ payer' = IF payer \notin Range(new_participants)
                        THEN new_participants[1] ELSE payer
       ELSE UNCHANGED <<participants, split_options, payer>>
    /\ UNCHANGED <<variant, file, receipt_items, cur_index, splits, started,
                   buttons, pvars, cvars>>

\* main.py: "Who paid?" is answered.
ChoosePayer(p) ==
    /\ variant = "main" /\ p \in Range(participants)
    /\ payer' = p
    /\ UNCHANGED <<variant, file, receipt_items, cur_index, splits, started,
                   buttons, participants, split_options, pvars, cvars>>

\* main.py: "Start splitting" is pressed (enabled while a file is there).
\* When the OCR or parse_items raises (ok = FALSE) the run ends before the
\* session state is written.
StartClicked(ok) ==
    /\ variant = "main" /\ file # None
    /\ IF ok
       THEN /\ receipt_items' = file[1]
            /\ started' = TRUE
            /\ cur_index' = 0
            /\ splits' = <<>>
       ELSE UNCHANGED <<receipt_items, started, cur_index, splits>>
    /\ UNCHANGED <<variant, file, buttons, payer, participants, split_options,
                   pvars, cvars>>

\* ChooseSplit that skips an item.
ChooseSplit_skip(k) ==
    /\ variant = "main" /\ started /\ Len(receipt_items) > 0
    /\ cur_index < Len(receipt_items)
    /\ k \in 1..Len(split_options)
    /\ splits' = Append(splits, split_options[k])
    /\ cur_index' = cur_index + 2
    /\ UNCHANGED <<variant, file, receipt_items, started, buttons, payer,
                   participants, split_options, pvars, cvars>>

\* main.py: the k-th split button of the current item is pressed.
ChooseSplit(k) ==
    /\ variant = "main" /\ started /\ Len(receipt_items) > 0
    /\ cur_index < Len(receipt_items)
    /\ k \in 1..Len(split_options)
    /\ splits' = Append(splits, split_options[k])
    /\ cur_index' = cur_index + 1
    /\ UNCHANGED <<variant, file, receipt_items, started, buttons, payer,
                   participants, split_options, pvars, cvars>>

\* The results are on the page.
ResultsShown ==
    /\ variant = "main" /\ started /\ Len(receipt_items) > 0
    /\ cur_index >= Len(receipt_items)

\* main.py: "Start over": reset_state().
StartOver ==
    /\ ResultsShown
    /\ receipt_items' = <<>>
    /\ cur_index' = 0
    /\ splits' = <<>>
    /\ started' = FALSE
    /\ UNCHANGED <<variant, file, buttons, payer, participants, split_options,
                   pvars, cvars>>

\* main.py: "Reset everything": reset_state(full=True).
ResetEverything ==
    /\ ResultsShown
    /\ receipt_items' = <<>>
    /\ cur_index' = 0
    /\ splits' = <<>>
    /\ started' = FALSE
    /\ participants' = DefaultParticipants
    /\ split_options' = OptionsTable[DefaultParticipants]
    /\ payer' = DefaultParticipants[1]
    /\ UNCHANGED <<variant, file, buttons, pvars, cvars>>

\* android.py: the payer property is set from the layout.
SelectPayerA(p) ==
    /\ variant = "android" /\ p \in Range(RosterA)
    /\ payer' = p
    /\ UNCHANGED <<variant, file, receipt_items, cur_index, splits, started,
                   buttons, participants, split_options, pvars, cvars>>

\* android.py: show_next_item, given the new cur_index: past the last item
\* it shows the results and leaves buttons_box as it is.
ShowNextItem(index) ==
    buttons' = IF index >= Len(receipt_items) THEN buttons ELSE TRUE

\* android.py: start_splitting.
start_splitting ==
    /\ variant = "android"
    /\ IF payer = <<>>
       THEN UNCHANGED <<cur_index, splits, buttons>>
       ELSE /\ cur_index' = 0
            /\ splits' = <<>>
            /\ ShowNextItem(0)
    /\ UNCHANGED <<variant, file, receipt_items, started, payer, participants,
                   split_options, pvars, cvars>>

\* android.py: choose_split, from a button of buttons_box.  The buttons stay
\* after the last item; the presses past it are bounded by MaxExtraPresses.
choose_split(k) ==
    /\ variant = "android" /\ buttons
    /\ cur_index < Len(receipt_items) + MaxExtraPresses
    /\ k \in 1..Len(split_options)
    /\ splits' = Append(splits, split_options[k])
    /\ cur_index' = cur_index + 1
    /\ ShowNextItem(cur_index + 1)
    /\ UNCHANGED <<variant, file, receipt_items, started, payer, participants,
                   split_options, pvars, cvars>>

FlowNext ==
    \/ \E its \in ParseResults : Upload(its)
    \/ RemoveFile
    \/ \E names \in NamesInputs : EditParticipants(names)
    \/ \E p \in Range(participants) : ChoosePayer(p)
    \/ \E ok \in BOOLEAN : StartClicked(ok)
    \/ \E k \in 1..Len(split_options) : ChooseSplit(k)
    \/ StartOver
    \/ ResetEverything
    \/ \E p \in Range(RosterA) : SelectPayerA(p)
    \/ start_splitting
    \/ \E k \in 1..Len(split_options) : choose_split(k)

SpecFlow == FlowInit /\ [][FlowNext]_vars

----------------------------------------------------------------------------
(* Properties of the split workflow (specification SpecFlow).               *)

\* AwaitingItemSplit(cur_index): splitting has started and an item is shown
\* with its split buttons.
AwaitingItemSplit ==
    /\ IF variant = "main" THEN started ELSE buttons
    /\ cur_index < Len(receipt_items)

\* C8, as claimed: while an item awaits its split, the index stays or moves
\* to the next item; nothing moves it back or to 0, or further than one.
C8_IndexOnlyStepsForward ==
    [][AwaitingItemSplit => cur_index' \in {cur_index, cur_index + 1}]_vars

\* C8, amended: while an item awaits its split, the index stays, or moves to
\* the next item together with one more recorded split, or is set back to 0
\* with the recorded splits cleared ("Start splitting" pressed again); it
\* never moves further than one item and never back to another item.
C8_IndexStepsForwardOrRestarts ==
    [][AwaitingItemSplit =>
         \/ cur_index' = cur_index /\ splits' = splits
         \/ cur_index' = cur_index + 1 /\ Len(splits') = Len(splits) + 1
         \/ cur_index' = 0 /\ splits' = <<>>]_vars

\* C8: the second item awaits its split, after one split was chosen.
C8_Witness ==
    /\ AwaitingItemSplit /\ cur_index = 1 /\ Len(splits) = 1

\* C11: in every reachable state of the workflow the number of recorded
\* splits equals the current item index, and the index never exceeds the
\* number of parsed items.
C11_SplitsPairedWithItems ==
    /\ Len(splits) = cur_index
    /\ cur_index <= Len(receipt_items)

====
